---- MODULE Spec2Model ----
(***************************************************************************)
(* Model of custom_components/garmin_connect/__init__.py: the setup and    *)
(* the unload of the config entry and the                                  *)
(* GarminConnectDataUpdateCoordinator.  The coroutines of the integration  *)
(* are modelled as they run on the event loop: async_setup_entry,          *)
(* async_unload_entry, the refresh cycle (_async_update_data) and the      *)
(* service actions (set_active_gear, add_body_composition,                 *)
(* add_blood_pressure), of which several can be in flight.  A step is the  *)
(* code between two awaits: the call a coroutine awaits completes with an  *)
(* outcome, and the code that follows runs up to the next await, or to the *)
(* end of the coroutine.  The steps of the coroutines in flight interleave *)
(* in every order; the code holds no lock.                                 *)
(*                                                                         *)
(* A coroutine that ended stays on the record, with its locals and its     *)
(* outcome, until the next step of the model, whichever coroutine takes    *)
(* it.  A coordinator is part of the state as long as something refers to  *)
(* it: hass.data, the setup that constructed it, a coroutine on record.    *)
(*                                                                         *)
(* The specifications take the same steps with the same scheduling and     *)
(* differ in the answers of the Remote Client and of the host and in the   *)
(* service calls they draw from: Spec takes the three client errors of the *)
(* fetches and every outcome of the re-login, SetupSpec every outcome of   *)
(* the logins, of the forwarding and of the unloading, ShapeSpec both      *)
(* shapes of the summary and of the body composition, GearSpec every error *)
(* of the gear phase, GatherSpec the gear lists, ActionSpec every service  *)
(* call and every outcome of its login, ExclusiveSpec the lists of         *)
(* defaults and every error of a write, SleepSpec and HrvSpec the shapes   *)
(* of the sleep and of the HRV answer.                                     *)
(*                                                                         *)
(* The host sets the entry up any number of times and unloads it.  Every   *)
(* setup constructs a coordinator of its own (line 37), with its own       *)
(* self.data and its own client; the coordinators are told apart by what   *)
(* refers to them (see Coordinators).  The host refreshes, and the service *)
(* layer calls, the coordinator that is in hass.data, whatever else is in  *)
(* flight; a coroutine that was started on a coordinator goes on with that *)
(* coordinator when another one takes its place in hass.data or when it    *)
(* is popped.  At most MaxInFlight coroutines are in flight at a time.     *)
(*                                                                         *)
(* Python values are modelled as TLA+ functions so that any two of them    *)
(* can be compared: a dict is a function on its keys, a list a sequence,   *)
(* None is NoneVal, and a scalar x that sits at a Snapshot key is          *)
(* Scalar(x).  The empty dict and the empty list are both << >>.           *)
(***************************************************************************)
EXTENDS Integers, Sequences, FiniteSets, TLC

\* ------------------------------------------------------------------ bounds
\* longest gear list get_gear returns
MaxGear == 2
\* longest list get_gear_defaults returns to a service action
MaxDefaults == 4
\* coroutines of the integration suspended at an await at the same time
MaxInFlight == 2

\* --------------------------------------------------------------- constants
\* const.GEAR, const.SERVICE_SETTING, const.DOMAIN and const.DATA_COORDINATOR
\* (imported at lines 21-27)
USERPROFILE_ID == "userProfileId"
UUID == "uuid"
TYPE_KEY == "typeKey"
TYPE_ID == "typeId"
ACTIVITY_TYPE_PK == "activityTypePk"
ONLY_THIS_AS_DEFAULT == "exclusive-default"
DEFAULT == "default"
UNSET_DEFAULT == "not-default"
SERVICE_SETTING == {ONLY_THIS_AS_DEFAULT, DEFAULT, UNSET_DEFAULT}
INTEGRATION_DOMAIN == "garmin_connect"
DATA_COORDINATOR == "coordinator"

\* ------------------------------------------------------------ Python values
NoneVal == [None |-> TRUE]
Scalar(x) == [scalar |-> x]
EmptyDict == << >>
HasKey(d, k) == k \in DOMAIN d

\* DictMerge with the first dict winning on a key both have
DictMergeFirstWins(a, b) == [k \in (DOMAIN a) \cup (DOMAIN b) |-> IF k \in DOMAIN a THEN a[k] ELSE b[k]]

\* {**a, **b}: the keys of both, b's value where both have the key
DictMerge(a, b) == [k \in (DOMAIN a) \cup (DOMAIN b) |-> IF k \in DOMAIN b THEN b[k] ELSE a[k]]

\* d[k] = v on a dict
DictSet(d, k, v) == [x \in (DOMAIN d) \cup {k} |-> IF x = k THEN v ELSE d[x]]

\* the first n elements of the sequence s
Prefix(s, n) == [i \in 1..n |-> s[i]]

\* ------------------------------------------------ the Remote Client's answers
\* what a remote call can do: return, or raise one of the client's errors
ReloginErrors == {"AuthenticationError", "TooManyRequestsError", "ConnectionError"}
Outcomes == {"ok"} \cup ReloginErrors \cup {"Exception"}

\* the summary carries a key the body-composition totals also carry (weight) and a key
\* the return statement writes itself (nextAlarm)
SummaryWithProfile ==
    [userProfileId |-> Scalar("u1"), totalSteps |-> Scalar("steps"),
     weight |-> Scalar("summary_weight"), nextAlarm |-> Scalar("summary_alarm")]
SummaryWithoutProfile ==
    [totalSteps |-> Scalar("steps"),
     weight |-> Scalar("summary_weight"), nextAlarm |-> Scalar("summary_alarm")]
SummaryResponses == {SummaryWithProfile, SummaryWithoutProfile}

BodyWithTotal ==
    [startDate |-> Scalar("today"),
     totalAverage |-> [weight |-> Scalar("body_weight"), bmi |-> Scalar("body_bmi"),
                       sleepScore |-> Scalar("body_score")]]
BodyWithoutTotal == [startDate |-> Scalar("today")]
BodyResponses == {BodyWithTotal, BodyWithoutTotal}

ActivitiesResponse == <<[activityId |-> Scalar("act1")]>>
BadgesResponse == <<[badgeId |-> Scalar("badge1")]>>
AlarmsResponse == <<[alarmId |-> Scalar("alarm1")]>>

\* the label "running" is listed twice: the first entry is the one resolved
ActivityTypesResponse ==
    <<[typeKey |-> "running", typeId |-> 1],
      [typeKey |-> "cycling", typeId |-> 2],
      [typeKey |-> "running", typeId |-> 3]>>

\* what the Remote Client may answer to get_sleep_data, shape by shape
SleepFull ==
    [dailySleepDTO |->
        [sleepTimeSeconds |-> Scalar("28800"),
         sleepScores |-> [overall |-> [value |-> Scalar("82")]]]]
SleepWithoutScores == [dailySleepDTO |-> [sleepTimeSeconds |-> Scalar("28800")]]
SleepWithoutTime ==
    [dailySleepDTO |-> [sleepScores |-> [overall |-> [value |-> Scalar("82")]]]]
SleepWithoutDTO == EmptyDict
SleepOtherKeys == [restlessMomentsCount |-> Scalar("3")]
SleepResponses ==
    {SleepFull, SleepWithoutScores, SleepWithoutTime, SleepWithoutDTO, SleepOtherKeys}

\* what the Remote Client may answer to get_hrv_data, shape by shape
HrvFull == [hrvSummary |-> [status |-> Scalar("BALANCED")], userProfilePk |-> Scalar("u1")]
HrvWithoutSummary == [userProfilePk |-> Scalar("u1")]
HrvEmpty == EmptyDict
HrvNullSummary == [hrvSummary |-> NoneVal, userProfilePk |-> Scalar("u1")]
HrvEmptySummary == [hrvSummary |-> EmptyDict, userProfilePk |-> Scalar("u1")]
HrvResponses ==
    {HrvFull, HrvWithoutSummary, HrvEmpty, NoneVal, HrvNullSummary, HrvEmptySummary}

\* the gear of the account: get_gear returns its first n items, n up to MaxGear
GearInventory == <<"A", "B", "C", "D">>
GearItem(u) == [uuid |-> u]
GearLists == {[i \in 1..n |-> GearItem(GearInventory[i])] : n \in 0..MaxGear}
GearStatsResponse(u) == [uuid |-> u, totalActivities |-> Scalar("n")]

\* the defaults of the account, as get_gear_defaults lists them: the list a call returns
\* is a prefix of one of the two orders, of length up to MaxDefaults.  Both hold entries
\* of the type of a service call that are not its target, the target itself (C), and
\* entries of another type.
DefaultEntry(u, t) == [uuid |-> u, activityTypePk |-> t]
DefaultsInventory ==
    <<DefaultEntry("A", 1), DefaultEntry("A", 2), DefaultEntry("C", 1),
      DefaultEntry("B", 1), DefaultEntry("D", 1), DefaultEntry("B", 2)>>
DefaultsInventoryOtherOrder ==
    <<DefaultEntry("B", 1), DefaultEntry("C", 1), DefaultEntry("A", 1),
      DefaultEntry("C", 2), DefaultEntry("A", 2), DefaultEntry("D", 1)>>
GearDefaultsLists ==
    {Prefix(DefaultsInventory, n) : n \in 0..MaxDefaults}
        \cup {Prefix(DefaultsInventoryOtherOrder, n) : n \in 0..MaxDefaults}
GearDefaultsTypical == {Prefix(DefaultsInventory, 1)}

\* a remote call as it is logged: the method and, for the gear calls, its arguments
Call(op) == [op |-> op, type |-> 0, uuid |-> "", flag |-> FALSE]
StatsCall(u) == [op |-> "get_gear_stats", type |-> 0, uuid |-> u, flag |-> FALSE]
SetDefaultCall(t, u, f) == [op |-> "set_gear_default", type |-> t, uuid |-> u, flag |-> f]

\* ------------------------------------------------------------ service calls
\* a call of the service layer: the method, service_data.data["setting"],
\* service_data.data["activity_type"], entity.uuid
ServiceCall(op, st, lb, u) == [op |-> op, setting |-> st, label |-> lb, uuid |-> u]
GearCallsOfService ==
    {ServiceCall("set_active_gear", st, lb, "C") :
        st \in SERVICE_SETTING, lb \in {"running", "cycling", "swimming"}}
MeasurementCalls ==
    {ServiceCall("add_body_composition", "", "", ""), ServiceCall("add_blood_pressure", "", "", "")}
ServiceCalls == GearCallsOfService \cup MeasurementCalls
\* ------------------------------------------------------------- what is drawn
\* The answers and the service calls a specification draws from.  fetchErrors,
\* gearErrors, writeErrors: the errors the fetches of lines 119-155, the gear calls of
\* lines 167-184 and the remote calls of an action may raise; setupLogins, cycleLogins,
\* actionLogins: the outcomes of self._api.login in a setup, in a cycle and in an
\* action; forwards, unloads: what async_forward_entry_setups (line 47) and
\* async_unload_platforms (line 54) do; the other fields are the sets the answers and
\* the calls are taken from.
\* one answer of each kind, one error of a fetch, the logins succeed
TypicalInputs ==
    [fetchErrors |-> {"AuthenticationError"},
     gearErrors |-> {},
     cycleLogins |-> {"ok"},
     summaries |-> {SummaryWithProfile},
     bodies |-> {BodyWithTotal},
     sleeps |-> {SleepFull},
     hrvs |-> {HrvFull},
     gearLists |-> {Prefix(<<GearItem("A")>>, 1)},
     cycleDefaults |-> GearDefaultsTypical,
     calls |-> {ServiceCall("set_active_gear", ONLY_THIS_AS_DEFAULT, "running", "C"),
               ServiceCall("set_active_gear", DEFAULT, "running", "C")}
                   \cup MeasurementCalls,
     actionLogins |-> {"ok"},
     actionDefaults |-> GearDefaultsTypical,
     writeErrors |-> {"Exception"},
     setupLogins |-> {"ok"},
     forwards |-> {"ok"},
     unloads |-> {"True"}]

\* each of the three client errors of a fetch, every outcome of the login in the cycle
CycleInputs ==
    [TypicalInputs EXCEPT !.fetchErrors = ReloginErrors, !.cycleLogins = Outcomes]

\* every outcome of the login in a setup, in a cycle and in an action, of the
\* forwarding and of the unloading
SetupInputs ==
    [TypicalInputs EXCEPT !.setupLogins = Outcomes, !.cycleLogins = Outcomes,
                          !.actionLogins = Outcomes, !.forwards = {"ok", "Exception"},
                          !.unloads = {"True", "False", "Exception"}]

\* both shapes of the summary and of the body composition, an unspecified error of a
\* fetch
ShapeInputs ==
    [TypicalInputs EXCEPT !.fetchErrors = {"AuthenticationError", "Exception"},
                          !.summaries = SummaryResponses, !.bodies = BodyResponses]

\* every error in the gear phase, summaries with and without the profile identifier
GearInputs ==
    [TypicalInputs EXCEPT !.gearErrors = Outcomes \ {"ok"}, !.summaries = SummaryResponses]

\* gear lists of every length up to MaxGear
GatherInputs ==
    [TypicalInputs EXCEPT !.gearErrors = {"Exception"}, !.gearLists = GearLists]

\* every service call, every outcome of the login of an action
ActionInputs ==
    [TypicalInputs EXCEPT !.calls = ServiceCalls, !.actionLogins = Outcomes]

\* every list of defaults, every error of a remote call of an action
ExclusiveInputs ==
    [TypicalInputs EXCEPT !.actionDefaults = GearDefaultsLists,
                          !.writeErrors = Outcomes \ {"ok"}]

\* every shape of the sleep answer
SleepInputs == [TypicalInputs EXCEPT !.sleeps = SleepResponses]

\* every shape of the HRV answer
HrvInputs == [TypicalInputs EXCEPT !.hrvs = HrvResponses]

VARIABLES
    data,            \* self.data of each coordinator: the last Snapshot the host stored (NoneVal before the first)
    cyc,             \* the refresh cycle of each coordinator: a record, see RefreshIdle
    acts,            \* the service actions in flight, and the one that just ended: a bag of records
    s_pc,            \* async_setup_entry: "idle", "login", "first_refresh", "forward", "done", "over"
    s_co,            \* the coordinator line 37 constructed, in the setup that runs or just ended
    s_login,         \* the login of line 39: the outcome of the call, what async_login made of it
    s_outcome,       \* how async_setup_entry ended: "True", "False" or the error that left it
    hass_data,       \* hass.data, the key DOMAIN of it
    u_pc,            \* async_unload_entry: "idle", "unload_platforms", "done" when it just ended
    u_outcome        \* how async_unload_entry ended: "True", "False" or the error that left it

vars == <<data, cyc, acts, s_pc, s_co, s_login, s_outcome, hass_data, u_pc, u_outcome>>

\* ---------------------------------------------------------------- exceptions
\* line 18: homeassistant.exceptions declares ConfigEntryNotReady as a subclass of
\* IntegrationError, so both are integration-level errors to a caller
IntegrationErrorClasses == {"IntegrationError", "ConfigEntryNotReady"}

\* ------------------------------------------------------------- async_login
\* async_login with the ConnectionError handled like the other client errors
async_login_swallowing(o) ==
    IF o \in {"AuthenticationError", "TooManyRequestsError", "ConnectionError"}
    THEN [raised |-> "", value |-> FALSE]
    ELSE IF o # "ok"
    THEN [raised |-> "", value |-> FALSE]
    ELSE [raised |-> "", value |-> TRUE]

\* lines 79-100: what async_login does with the outcome o of self._api.login;
\* raised = "" when it returns value
async_login(o) ==
    IF o \in {"AuthenticationError", "TooManyRequestsError"}
    THEN [raised |-> "", value |-> FALSE]
    ELSE IF o = "ConnectionError"
    THEN [raised |-> "ConfigEntryNotReady", value |-> FALSE]
    ELSE IF o # "ok"
    THEN [raised |-> "", value |-> FALSE]
    ELSE [raised |-> "", value |-> TRUE]

\* a login call as it is observed: the outcome of self._api.login and the result of
\* async_login; NoLogin before the call
NoLogin == [outcome |-> "", raised |-> "", value |-> FALSE]
LoginRecord(o) == [outcome |-> o, raised |-> async_login(o).raised, value |-> async_login(o).value]
NoFail == [step |-> "", err |-> ""]

\* ---------------------------------------------------------- the coordinators
\* Every call of async_setup_entry constructs a coordinator (line 37), with its own
\* self.data and its own client.  The coordinators are told apart by what refers to
\* them.  Current: the one hass.data holds.  Fresh: the one the setup in progress
\* constructed and has not put into hass.data.  Former: those hass.data held before; a
\* coroutine that was called on one of them, or the setup that constructed it, still
\* refers to it.  A coordinator nothing refers to is gone: it has no data, no cycle
\* and no action.
Current == 1
Fresh == 2
Former == 3..(MaxInFlight + 2)
Coordinators == {Current, Fresh} \cup Former
NoCoordinator == 0

\* the one config entry of the account
ENTRY_ID == "entry1"

\* a coordinator of the entry is in hass.data: line 45 put it there and line 56 has not
\* popped it.  The host refreshes, and the service layer calls, the coordinator that
\* is there.
Registered ==
    /\ HasKey(hass_data, INTEGRATION_DOMAIN)
    /\ HasKey(hass_data[INTEGRATION_DOMAIN], ENTRY_ID)

\* hass.data[DOMAIN][entry.entry_id][DATA_COORDINATOR]
RegisteredCoordinator == hass_data[INTEGRATION_DOMAIN][ENTRY_ID][DATA_COORDINATOR]

\* the coordinators something refers to: hass.data, the local of the setup that runs
\* or just ended, a cycle or an action on record
Alive ==
    (IF Registered THEN {RegisteredCoordinator} ELSE {})
        \cup (IF s_pc \in {"login", "first_refresh", "forward", "done"} THEN {s_co} ELSE {})
        \cup {c \in Coordinators : cyc[c].pc # "idle"}
        \cup {a.co : a \in DOMAIN acts}

\* a place among the former coordinators that none has
FormerFree == CHOOSE c \in Former \ Alive : \A d \in Former \ Alive : c <= d

\* Where the coordinators are after a step.  Stay: where they were.  Installed: line 45
\* put the coordinator of the setup into hass.data, and the one that was there is a
\* former one.  Removed: line 56 popped the coordinator from hass.data, it is a former
\* one.  The place a coordinator leaves is taken by nothing.
Stay == [c \in Coordinators |-> c]
Installed ==
    [c \in Coordinators |->
        IF c = Fresh THEN Current
        ELSE IF c = Current THEN FormerFree
        ELSE IF c = FormerFree THEN Fresh
        ELSE c]
Removed ==
    [c \in Coordinators |->
        IF c = Current THEN FormerFree
        ELSE IF c = FormerFree THEN Current
        ELSE c]

\* f, which has a value for each coordinator, once the coordinators are where to says
Moved(f, to) == [d \in Coordinators |-> f[CHOOSE c \in Coordinators : to[c] = d]]

\* ------------------------------------------------- the coroutines in flight
\* a bag of action records: the records, each with the number of its copies
NoActions == [a \in {} |-> 0]
Put(b, a) == [x \in (DOMAIN b) \cup {a} |-> IF x = a THEN (IF a \in DOMAIN b THEN b[a] + 1 ELSE 1) ELSE b[x]]
Take(b, a) == [x \in (IF b[a] = 1 THEN (DOMAIN b) \ {a} ELSE DOMAIN b) |-> IF x = a THEN b[a] - 1 ELSE b[x]]
RECURSIVE SumOver(_, _)
SumOver(b, S) == IF S = {} THEN 0 ELSE LET x == CHOOSE y \in S : TRUE IN b[x] + SumOver(b, S \ {x})

\* the actions suspended at an await: the one that just ended is left out
Live(b) == [a \in {x \in DOMAIN b : x.pc # "done"} |-> b[a]]

\* the actions of b, each on its coordinator where to says it is
ActsMoved(b, to) ==
    [x \in {[a EXCEPT !.co = to[a.co]] : a \in DOMAIN b} |->
        b[[x EXCEPT !.co = CHOOSE c \in Coordinators : to[c] = x.co]]]

CycleInFlight(c) == cyc[c].pc \notin {"idle", "done"}

\* the cycle of the coordinator c is the first refresh that async_setup_entry awaits
\* (line 42)
FirstRefresh(c) == s_pc = "first_refresh" /\ c = s_co

\* the coroutines suspended at an await; the first refresh cycle is awaited by
\* async_setup_entry and counts with it
InFlight ==
    (IF s_pc \in {"login", "first_refresh", "forward"} THEN 1 ELSE 0)
    + Cardinality({c \in Coordinators : CycleInFlight(c) /\ ~FirstRefresh(c)})
    + (IF u_pc = "unload_platforms" THEN 1 ELSE 0)
    + SumOver(Live(acts), DOMAIN Live(acts))

\* one more coroutine can be started
CanStart == InFlight < MaxInFlight

\* -------------------------------------------------------- the refresh cycle
Phase1Calls ==
    <<"get_user_summary", "get_body_composition", "get_activities_by_date",
      "get_earned_badges", "get_device_alarms", "get_activity_types",
      "get_sleep_data", "get_hrv_data">>
GearCalls == {"get_gear", "get_gear_stats", "get_gear_defaults"}

\* The cycle of a coordinator when none runs.  pc: "idle", the call the cycle awaits,
\* "done" when it just ended.  summary .. hrv_data: the locals of _async_update_data, as
\* lines 105-116 set them.  error: the error caught at line 160.  stats_done: the
\* indices of the gear items whose get_gear_stats completed, in completion order.
\* calls: the remote calls the cycle issued, in order.  login: the re-login of the
\* cycle.  fetch_fail, gear_fail: the Phase-1 call and the step of the gear phase that
\* raised, and the error.  outcome: how the cycle ended, "returned" or the error that
\* left it.  cause: the error an UpdateFailed / ConfigEntryNotReady carries.  result:
\* the value the cycle returned.
RefreshIdle ==
    [pc |-> "idle",
     summary |-> EmptyDict, body |-> EmptyDict, alarms |-> EmptyDict,
     gear |-> EmptyDict, gear_stats |-> EmptyDict, gear_defaults |-> EmptyDict,
     activity_types |-> EmptyDict, sleep_data |-> EmptyDict, hrv_data |-> EmptyDict,
     error |-> "", stats_done |-> << >>,
     calls |-> << >>, login |-> NoLogin, fetch_fail |-> NoFail, gear_fail |-> NoFail,
     outcome |-> "", cause |-> "", result |-> EmptyDict]

\* lines 102-119: _async_update_data is called; it sets its locals and awaits
\* get_user_summary
RefreshBegin == [RefreshIdle EXCEPT !.pc = "get_user_summary"]

\* ------------------------------------------------- what a step leaves alone
\* the action that ended before this step is gone
ActsKeep == acts' = Live(acts)

\* the cycle that ended before this step is gone: its locals and what was observed of
\* it are forgotten
RefreshForget(r) == IF r.pc = "done" THEN RefreshIdle ELSE r

\* the cycles of the coordinators, without those that ended before this step
CyclesKept == [d \in Coordinators |-> RefreshForget(cyc[d])]
CycleKeep == cyc' = CyclesKept

\* the cycle of the coordinator c goes on as r
CycleMoves(c, r) == cyc' = [CyclesKept EXCEPT ![c] = r]

\* async_setup_entry ended before this step: what was observed of it is forgotten
SetupObservedKeep ==
    IF s_pc = "done"
    THEN s_pc' = "over" /\ s_co' = NoCoordinator /\ s_login' = NoLogin /\ s_outcome' = ""
    ELSE UNCHANGED <<s_pc, s_co, s_login, s_outcome>>

SetupKeep == SetupObservedKeep /\ UNCHANGED hass_data

\* the local coordinator of async_setup_entry, once the coordinators are where to says
SetupObservedMoved(to) ==
    IF s_pc = "done"
    THEN s_pc' = "over" /\ s_co' = NoCoordinator /\ s_login' = NoLogin /\ s_outcome' = ""
    ELSE /\ s_co' = IF s_co = NoCoordinator THEN NoCoordinator ELSE to[s_co]
         /\ UNCHANGED <<s_pc, s_login, s_outcome>>

\* async_unload_entry ended before this step
UnloadKeep ==
    IF u_pc = "done"
    THEN u_pc' = "idle" /\ u_outcome' = ""
    ELSE UNCHANGED <<u_pc, u_outcome>>

\* the self.data d of the coordinators, of those that something still refers to once
\* the step is taken
DataOfAlive(d) == [c \in Coordinators |-> IF c \in Alive' THEN d[c] ELSE NoneVal]

\* no self.data is assigned
DataKeep == data' = DataOfAlive(data)

\* the host triggers a refresh of the coordinator in hass.data (update_interval, line
\* 76): DataUpdateCoordinator refreshes while entities listen to it, and runs one cycle
\* of a coordinator at a time
RefreshStart ==
    /\ Registered
    /\ ~CycleInFlight(RegisteredCoordinator)
    /\ CanStart
    /\ CycleMoves(RegisteredCoordinator, RefreshBegin)
    /\ SetupKeep /\ ActsKeep /\ UnloadKeep
    /\ DataKeep

\* lines 44-45: hass.data.setdefault(DOMAIN, {}) and the registration of the
\* coordinator c under the entry id e
Register(hd, e, c) ==
    DictSet(hd, INTEGRATION_DOMAIN,
            DictSet(IF HasKey(hd, INTEGRATION_DOMAIN) THEN hd[INTEGRATION_DOMAIN] ELSE EmptyDict,
                    e, [coordinator |-> c]))

\* the cycle of the coordinator c goes on, as r, to its next await
CycleGoesOn(c, r) ==
    /\ CycleMoves(c, r)
    /\ SetupKeep /\ ActsKeep
    /\ DataKeep

\* The cycle r of the coordinator c returned result or raised (outcome, cause); no await
\* lies between its end and what the caller does with it.  DataUpdateCoordinator (line
\* 60) keeps what the cycle returned as self.data and keeps the previous data when it
\* raised.  When the cycle is the first refresh of line 42,
\* async_config_entry_first_refresh raises ConfigEntryNotReady if the cycle raised,
\* whatever it raised; after a cycle that returned, lines 44-45 register the
\* coordinator, in the place of the one hass.data held, if any, and setup awaits
\* async_forward_entry_setups (line 47).
CycleEnds(c, r, outcome, cause, result) ==
    LET ended == [r EXCEPT !.pc = "done", !.outcome = outcome, !.cause = cause,
                           !.result = result]
        kept == IF outcome = "returned" THEN [data EXCEPT ![c] = result] ELSE data
    IN IF FirstRefresh(c) /\ outcome = "returned"
       THEN /\ hass_data' = Register(hass_data, ENTRY_ID, Installed[c])
            /\ s_pc' = "forward" /\ s_co' = Installed[c]
            /\ UNCHANGED <<s_login, s_outcome>>
            /\ cyc' = Moved([CyclesKept EXCEPT ![c] = ended], Installed)
            /\ acts' = ActsMoved(Live(acts), Installed)
            /\ data' = DataOfAlive(Moved(kept, Installed))
       ELSE /\ IF FirstRefresh(c)
               THEN /\ s_outcome' = "ConfigEntryNotReady"
                    /\ s_pc' = "done"
                    /\ UNCHANGED <<s_co, s_login, hass_data>>
               ELSE SetupKeep
            /\ CycleMoves(c, ended)
            /\ ActsKeep
            /\ data' = DataOfAlive(kept)

\* a Phase-1 call of the cycle r returned: the cycle moves on to the next await
Phase1Ok(c, r, call, next) ==
    CycleGoesOn(c, [r EXCEPT !.calls = Append(@, Call(call)), !.pc = next])

\* a Phase-1 call raised o: the except clause of lines 156-160 takes the three
\* client errors and awaits the login of line 162, any other error leaves the coroutine
Phase1Raise(c, r, call, o) ==
    LET failed == [r EXCEPT !.calls = Append(@, Call(call)),
                            !.fetch_fail = [step |-> call, err |-> o]]
    IN IF o \in ReloginErrors
       THEN CycleGoesOn(c, [failed EXCEPT !.error = o, !.pc = "relogin"])
       ELSE CycleEnds(c, failed, o, "", EmptyDict)

\* lines 119-122
GetUserSummary(E) ==
    /\ UnloadKeep
    /\ \E c \in Coordinators, o \in {"ok"} \cup E.fetchErrors :
          /\ cyc[c].pc = "get_user_summary"
          /\ IF o = "ok"
             THEN \E v \in E.summaries :
                     Phase1Ok(c, [cyc[c] EXCEPT !.summary = v],
                              "get_user_summary", "get_body_composition")
             ELSE Phase1Raise(c, cyc[c], "get_user_summary", o)

\* lines 124-127
GetBodyComposition(E) ==
    /\ UnloadKeep
    /\ \E c \in Coordinators, o \in {"ok"} \cup E.fetchErrors :
          /\ cyc[c].pc = "get_body_composition"
          /\ IF o = "ok"
             THEN \E v \in E.bodies :
                     Phase1Ok(c, [cyc[c] EXCEPT !.body = v],
                              "get_body_composition", "get_activities_by_date")
             ELSE Phase1Raise(c, cyc[c], "get_body_composition", o)

\* lines 129-133: the activities are stored in the summary
GetActivitiesByDate(E) ==
    /\ UnloadKeep
    /\ \E c \in Coordinators, o \in {"ok"} \cup E.fetchErrors :
          /\ cyc[c].pc = "get_activities_by_date"
          /\ IF o = "ok"
             THEN Phase1Ok(c, [cyc[c] EXCEPT !.summary = DictSet(@, "lastActivities", ActivitiesResponse)],
                           "get_activities_by_date", "get_earned_badges")
             ELSE Phase1Raise(c, cyc[c], "get_activities_by_date", o)

\* lines 135-139: the badges are stored in the summary
GetEarnedBadges(E) ==
    /\ UnloadKeep
    /\ \E c \in Coordinators, o \in {"ok"} \cup E.fetchErrors :
          /\ cyc[c].pc = "get_earned_badges"
          /\ IF o = "ok"
             THEN Phase1Ok(c, [cyc[c] EXCEPT !.summary = DictSet(@, "badges", BadgesResponse)],
                           "get_earned_badges", "get_device_alarms")
             ELSE Phase1Raise(c, cyc[c], "get_earned_badges", o)

\* lines 141-142
GetDeviceAlarms(E) ==
    /\ UnloadKeep
    /\ \E c \in Coordinators, o \in {"ok"} \cup E.fetchErrors :
          /\ cyc[c].pc = "get_device_alarms"
          /\ IF o = "ok"
             THEN Phase1Ok(c, [cyc[c] EXCEPT !.alarms = AlarmsResponse],
                           "get_device_alarms", "get_activity_types")
             ELSE Phase1Raise(c, cyc[c], "get_device_alarms", o)

\* lines 144-147
GetActivityTypes(E) ==
    /\ UnloadKeep
    /\ \E c \in Coordinators, o \in {"ok"} \cup E.fetchErrors :
          /\ cyc[c].pc = "get_activity_types"
          /\ IF o = "ok"
             THEN Phase1Ok(c, [cyc[c] EXCEPT !.activity_types = ActivityTypesResponse],
                           "get_activity_types", "get_sleep_data")
             ELSE Phase1Raise(c, cyc[c], "get_activity_types", o)

\* lines 149-151
GetSleepData(E) ==
    /\ UnloadKeep
    /\ \E c \in Coordinators, o \in {"ok"} \cup E.fetchErrors :
          /\ cyc[c].pc = "get_sleep_data"
          /\ IF o = "ok"
             THEN \E v \in E.sleeps :
                     Phase1Ok(c, [cyc[c] EXCEPT !.sleep_data = v],
                              "get_sleep_data", "get_hrv_data")
             ELSE Phase1Raise(c, cyc[c], "get_sleep_data", o)

\* lines 161-164: how the cycle ends once the re-login completed with outcome o,
\* err being the error the fetch raised
ReloginEnd(o, err) ==
    LET res == async_login(o) IN
    IF res.raised # ""
    THEN [outcome |-> res.raised, cause |-> o]
    ELSE IF ~res.value
    THEN [outcome |-> "UpdateFailed", cause |-> err]
    ELSE [outcome |-> "returned", cause |-> ""]

\* Relogin with the fetches tried again in the same tick once the login succeeded
ReloginRetrying(E) ==
    /\ UnloadKeep
    /\ \E c \in Coordinators, o \in E.cycleLogins :
          /\ cyc[c].pc = "relogin"
          /\ LET end == ReloginEnd(o, cyc[c].error)
                 logged == [cyc[c] EXCEPT !.calls = Append(@, Call("login")),
                                          !.login = LoginRecord(o)]
             IN IF end.outcome = "returned"
                THEN CycleGoesOn(c, [logged EXCEPT !.pc = "get_user_summary"])
                ELSE CycleEnds(c, logged, end.outcome, end.cause, EmptyDict)

\* lines 161-164: the login the except clause awaits completed
Relogin(E) ==
    /\ UnloadKeep
    /\ \E c \in Coordinators, o \in E.cycleLogins :
          /\ cyc[c].pc = "relogin"
          /\ LET end == ReloginEnd(o, cyc[c].error)
                 logged == [cyc[c] EXCEPT !.calls = Append(@, Call("login")),
                                          !.login = LoginRecord(o)]
             IN CycleEnds(c, logged, end.outcome, end.cause, EmptyDict)

\* the positions of a sequence
Indices(s) == 1..Len(s)
Range(s) == {s[i] : i \in DOMAIN s}

\* GatherResults with the results in the order in which the tasks completed
GatherResultsAsCompleted(items, order) ==
    [i \in Indices(order) |-> GearStatsResponse(items[order[i]][UUID])]

\* line 178: asyncio.gather returns the results in the order of the tasks, whatever
\* the order `order` in which the tasks completed
GatherResults(items, order) == [i \in Indices(items) |-> GearStatsResponse(items[i][UUID])]

\* lines 172-177: one executor job per gear item, submitted in the order of the list
StatsTasks(items) == [i \in Indices(items) |-> StatsCall(items[i][UUID])]

\* lines 113, 188-192: a missing key on the path leaves the score None
sleep_score(sleep_data) ==
    IF /\ HasKey(sleep_data, "dailySleepDTO")
       /\ HasKey(sleep_data["dailySleepDTO"], "sleepScores")
       /\ HasKey(sleep_data["dailySleepDTO"]["sleepScores"], "overall")
       /\ HasKey(sleep_data["dailySleepDTO"]["sleepScores"]["overall"], "value")
    THEN sleep_data["dailySleepDTO"]["sleepScores"]["overall"]["value"]
    ELSE NoneVal

\* sleep_time_seconds taken in the try block of the score: a score that cannot be read
\* leaves the duration None as well
sleep_time_seconds_joint(sleep_data) ==
    IF /\ sleep_score(sleep_data) # NoneVal
       /\ HasKey(sleep_data["dailySleepDTO"], "sleepTimeSeconds")
    THEN sleep_data["dailySleepDTO"]["sleepTimeSeconds"]
    ELSE NoneVal

\* lines 114, 194-198
sleep_time_seconds(sleep_data) ==
    IF /\ HasKey(sleep_data, "dailySleepDTO")
       /\ HasKey(sleep_data["dailySleepDTO"], "sleepTimeSeconds")
    THEN sleep_data["dailySleepDTO"]["sleepTimeSeconds"]
    ELSE NoneVal

\* the truth value of a dict, a list or None
Truthy(v) == v # NoneVal /\ DOMAIN v # {}

\* lines 116, 200-205
hrvStatus(hrv_data) ==
    IF Truthy(hrv_data) /\ HasKey(hrv_data, "hrvSummary")
    THEN hrv_data["hrvSummary"]
    ELSE [status |-> Scalar("UNKNOWN")]

\* lines 210-217: the keys the return statement writes itself, from the locals of the
\* cycle r
FixedKeys(r) ==
    [nextAlarm |-> r.alarms,
     gear |-> r.gear,
     gear_stats |-> r.gear_stats,
     activity_types |-> r.activity_types,
     gear_defaults |-> r.gear_defaults,
     sleepScore |-> sleep_score(r.sleep_data),
     sleepTimeSeconds |-> sleep_time_seconds(r.sleep_data),
     hrvStatus |-> hrvStatus(r.hrv_data)]

\* lines 207-218: the dict the cycle r returns
Snapshot(r) == DictMerge(DictMerge(r.summary, r.body["totalAverage"]), FixedKeys(r))

\* lines 188-218, with the locals of r: no await in there; body["totalAverage"] raises
\* KeyError when the key is missing, and nothing catches it
Derive(c, r) ==
    IF HasKey(r.body, "totalAverage")
    THEN CycleEnds(c, r, "returned", "", Snapshot(r))
    ELSE CycleEnds(c, r, "KeyError", "", EmptyDict)

\* GearExcept with the client errors sent to the re-login as in Phase 1
GearExceptRelogin(err) == IF err \in ReloginErrors THEN "relogin" ELSE "derive"

\* lines 185-186: the bare except takes whatever error err the gear phase raised, and the
\* cycle goes on at line 188
GearExcept(err) == "derive"

\* the step `step` of the gear phase of the cycle r raised err
GearRaise(c, r, step, err) ==
    LET failed == [r EXCEPT !.gear_fail = [step |-> step, err |-> err]]
    IN IF GearExcept(err) = "derive"
       THEN Derive(c, failed)
       ELSE CycleGoesOn(c, [failed EXCEPT !.error = err, !.pc = "relogin"])

\* lines 153-155 and 166-168: get_hrv_data completed; the try block ends and Phase 2
\* starts with the profile lookup, whose KeyError the bare except of line 185 takes,
\* and with get_gear
GetHrvData(E) ==
    /\ UnloadKeep
    /\ \E c \in Coordinators, o \in {"ok"} \cup E.fetchErrors :
          /\ cyc[c].pc = "get_hrv_data"
          /\ IF o = "ok"
             THEN \E v \in E.hrvs :
                     LET got == [cyc[c] EXCEPT !.hrv_data = v,
                                               !.calls = Append(@, Call("get_hrv_data"))]
                     IN IF HasKey(got.summary, USERPROFILE_ID)
                        THEN CycleGoesOn(c, [got EXCEPT !.pc = "get_gear"])
                        ELSE GearRaise(c, got, "lookup", "KeyError")
             ELSE Phase1Raise(c, cyc[c], "get_hrv_data", o)

\* lines 167-178: get_gear completed; the stats tasks are launched and gathered
GetGear(E) ==
    /\ UnloadKeep
    /\ \E c \in Coordinators, o \in {"ok"} \cup E.gearErrors :
          /\ cyc[c].pc = "get_gear"
          /\ IF o = "ok"
             THEN \E g \in E.gearLists :
                     LET got == [cyc[c] EXCEPT !.gear = g,
                                               !.calls = Append(@, Call("get_gear")) \o StatsTasks(g)]
                     IN CycleGoesOn(c, IF g = << >>
                                       THEN [got EXCEPT !.gear_stats = << >>, !.pc = "get_gear_defaults"]
                                       ELSE [got EXCEPT !.pc = "get_gear_stats"])
             ELSE GearRaise(c, [cyc[c] EXCEPT !.calls = Append(@, Call("get_gear"))], "get_gear", o)

\* line 178: one of the launched get_gear_stats calls completes; gather returns when the
\* last one has, and raises as soon as one of them raises
GearStatsComplete(E) ==
    /\ UnloadKeep
    /\ \E c \in Coordinators, o \in {"ok"} \cup E.gearErrors :
          /\ cyc[c].pc = "get_gear_stats"
          /\ \E i \in Indices(cyc[c].gear) \ Range(cyc[c].stats_done) :
                IF o = "ok"
                THEN LET completed == Append(cyc[c].stats_done, i) IN
                     CycleGoesOn(c, IF Len(completed) = Len(cyc[c].gear)
                                    THEN [cyc[c] EXCEPT !.stats_done = completed,
                                                        !.gear_stats = GatherResults(cyc[c].gear, completed),
                                                        !.pc = "get_gear_defaults"]
                                    ELSE [cyc[c] EXCEPT !.stats_done = completed])
                ELSE GearRaise(c, cyc[c], "get_gear_stats", o)

\* lines 181-218: get_gear_defaults completed; the rest of the coroutine has no await
GetGearDefaults(E) ==
    /\ UnloadKeep
    /\ \E c \in Coordinators, o \in {"ok"} \cup E.gearErrors :
          /\ cyc[c].pc = "get_gear_defaults"
          /\ LET called == [cyc[c] EXCEPT !.calls = Append(@, Call("get_gear_defaults"))]
             IN IF o = "ok"
                THEN \E v \in E.cycleDefaults : Derive(c, [called EXCEPT !.gear_defaults = v])
                ELSE GearRaise(c, called, "get_gear_defaults", o)
\* --------------------------------------------------------- the service actions
\* what an invocation of set_active_gear read of self.data at lines 231 and 243:
\* nothing yet, None, or a dict, with its activity_types list if it has one
Unread == [read |-> FALSE, none |-> FALSE, empty |-> FALSE, has_types |-> FALSE,
           types |-> << >>, has_profile |-> FALSE]
Read(d) ==
    [read |-> TRUE,
     none |-> d = NoneVal,
     empty |-> d = EmptyDict,
     has_types |-> d # NoneVal /\ HasKey(d, "activity_types"),
     types |-> IF d # NoneVal /\ HasKey(d, "activity_types") THEN d["activity_types"] ELSE << >>,
     has_profile |-> d # NoneVal /\ HasKey(d, USERPROFILE_ID)]

\* the coroutine of a service call c on the coordinator co as it is called: it awaits
\* its login (lines 222, 266, 291); the locals of set_active_gear are not set yet
NewAction(c, co) ==
    [op |-> c.op, setting |-> c.setting, label |-> c.label, uuid |-> c.uuid,
     co |-> co, pc |-> "login",
     activity_type_id |-> 0, old_default_state |-> << >>, to_deactivate |-> << >>, idx |-> 0,
     login |-> NoLogin, calls |-> << >>, outcome |-> "", seen |-> Unread]

\* the action a goes on as b
Moves(a, b) == acts' = Put(Take(Live(acts), a), b)

\* an action ends: how it ended is on its record
Ended(a, outcome) == [a EXCEPT !.pc = "done", !.outcome = outcome]

\* what a step of an action leaves alone
ActionFrame == CycleKeep /\ SetupKeep /\ UnloadKeep /\ DataKeep

\* the service layer invokes set_active_gear(entity, service_data) (line 220) of the
\* coordinator in hass.data
SetActiveGearStart(E) ==
    /\ Registered /\ CanStart
    /\ \E c \in E.calls :
          /\ c.op = "set_active_gear"
          /\ acts' = Put(Live(acts), NewAction(c, RegisteredCoordinator))
    /\ ActionFrame

\* the service layer invokes add_body_composition (line 264) of the coordinator in
\* hass.data
AddBodyCompositionStart(E) ==
    /\ Registered /\ CanStart
    /\ \E c \in E.calls :
          /\ c.op = "add_body_composition"
          /\ acts' = Put(Live(acts), NewAction(c, RegisteredCoordinator))
    /\ ActionFrame

\* the service layer invokes add_blood_pressure (line 288) of the coordinator in
\* hass.data
AddBloodPressureStart(E) ==
    /\ Registered /\ CanStart
    /\ \E c \in E.calls :
          /\ c.op = "add_blood_pressure"
          /\ acts' = Put(Live(acts), NewAction(c, RegisteredCoordinator))
    /\ ActionFrame

\* LoginGate without the test of the value async_login returned
LoginGateUnchecked(o) ==
    LET res == async_login(o) IN
    IF res.raised # "" THEN res.raised ELSE ""

\* LoginGate that returns to the caller instead of raising
LoginGateQuiet(o) ==
    LET res == async_login(o) IN
    IF res.raised # "" THEN res.raised
    ELSE IF ~res.value THEN "returned"
    ELSE ""

\* lines 222-225 (the same at 266-269 and 291-294): the error the action raises once its
\* login completed with outcome o, "" when it goes on
LoginGate(o) ==
    LET res == async_login(o) IN
    IF res.raised # "" THEN res.raised
    ELSE IF ~res.value THEN "IntegrationError"
    ELSE ""

\* Matches with a filter that takes every entry
MatchesAnyLabel(types, lb) == DOMAIN types

\* the positions of the entries of the list types whose label is lb
Matches(types, lb) == {i \in DOMAIN types : types[i][TYPE_KEY] = lb}

\* lines 228-233: next(filter(...))[GEAR.TYPE_ID], the first entry that matches
ResolveActivityType(types, lb) ==
    LET first == CHOOSE i \in Matches(types, lb) : \A j \in Matches(types, lb) : i <= j
    IN types[first][TYPE_ID]

\* ResolveError with a Snapshot that lists no activity types taken as nothing to do: the
\* action returns instead of raising
ResolveErrorSoft(d, lb, st) ==
    IF d = NoneVal THEN "TypeError"
    ELSE IF ~HasKey(d, "activity_types") THEN "returned"
    ELSE IF Matches(d["activity_types"], lb) = {} THEN "RuntimeError"
    ELSE IF st = ONLY_THIS_AS_DEFAULT /\ ~HasKey(d, USERPROFILE_ID) THEN "KeyError"
    ELSE ""

\* lines 228-233, 243: the error raised between the login and the first remote call, ""
\* when there is none: self.data is None, has no "activity_types", lists no entry with the
\* label (StopIteration, which leaves a coroutine as RuntimeError), or, for the
\* exclusive setting, has no profile identifier
ResolveError(d, lb, st) ==
    IF d = NoneVal THEN "TypeError"
    ELSE IF ~HasKey(d, "activity_types") THEN "KeyError"
    ELSE IF Matches(d["activity_types"], lb) = {} THEN "RuntimeError"
    ELSE IF st = ONLY_THIS_AS_DEFAULT /\ ~HasKey(d, USERPROFILE_ID) THEN "KeyError"
    ELSE ""

\* lines 222-243: the login completed; the label is resolved against the self.data of
\* the coordinator of the action as it is now, and the first remote call is awaited
SetActiveGearLogin(E) ==
    /\ \E a \in DOMAIN acts, o \in E.actionLogins :
          /\ a.pc = "login" /\ a.op = "set_active_gear"
          /\ LET logged == [a EXCEPT !.login = LoginRecord(o),
                                     !.calls = Append(@, Call("login"))]
                 self_data == data[a.co]
                 looked == [logged EXCEPT !.seen = Read(self_data)]
             IN IF LoginGate(o) # ""
                THEN Moves(a, Ended(logged, LoginGate(o)))
                ELSE IF ResolveError(self_data, a.label, a.setting) # ""
                THEN Moves(a, Ended(looked, ResolveError(self_data, a.label, a.setting)))
                ELSE Moves(a, [looked EXCEPT
                                 !.activity_type_id = ResolveActivityType(self_data["activity_types"], a.label),
                                 !.pc = IF a.setting # ONLY_THIS_AS_DEFAULT
                                        THEN "set_gear_default" ELSE "get_gear_defaults"])
    /\ ActionFrame

\* the end of an action on the outcome o of its last remote call
EndOn(o) == IF o = "ok" THEN "returned" ELSE o

\* SetGearDefault with the flag true whatever the setting
SetGearDefaultAlwaysDefault(E) ==
    /\ \E a \in DOMAIN acts, o \in {"ok"} \cup E.writeErrors :
          /\ a.pc = "set_gear_default"
          /\ Moves(a, Ended([a EXCEPT !.calls = Append(@, SetDefaultCall(a.activity_type_id, a.uuid, TRUE))],
                            EndOn(o)))
    /\ ActionFrame

\* lines 235-240: the single write of the settings other than the exclusive one
SetGearDefault(E) ==
    /\ \E a \in DOMAIN acts, o \in {"ok"} \cup E.writeErrors :
          /\ a.pc = "set_gear_default"
          /\ Moves(a, Ended([a EXCEPT !.calls = Append(@, SetDefaultCall(a.activity_type_id, a.uuid,
                                                                          a.setting = DEFAULT))],
                            EndOn(o)))
    /\ ActionFrame

\* ToDeactivate without the test that spares the target
ToDeactivateWholeType(defaults, t, u) ==
    SelectSeq(defaults, LAMBDA e : e[ACTIVITY_TYPE_PK] = t)

\* lines 245-251: the entries of the activity type t other than the target u
ToDeactivate(defaults, t, u) ==
    SelectSeq(defaults, LAMBDA e : e[ACTIVITY_TYPE_PK] = t /\ e[UUID] # u)

\* lines 242-254: get_gear_defaults completed; the list is filtered and the first write
\* of the sequence is awaited
GetGearDefaultsForAction(E) ==
    /\ \E a \in DOMAIN acts, o \in {"ok"} \cup E.writeErrors :
          /\ a.pc = "get_gear_defaults"
          /\ LET called == [a EXCEPT !.calls = Append(@, Call("get_gear_defaults"))] IN
             IF o = "ok"
             THEN \E v \in E.actionDefaults :
                     LET todo == ToDeactivate(v, a.activity_type_id, a.uuid) IN
                     Moves(a, [called EXCEPT !.old_default_state = v,
                                             !.to_deactivate = todo,
                                             !.idx = 1,
                                             !.pc = IF todo = << >> THEN "activate" ELSE "deactivate"])
             ELSE Moves(a, Ended(called, o))
    /\ ActionFrame

\* Deactivate with a rollback: when the call fails, the entries deactivated so far are
\* activated again before the error leaves the action
DeactivateWithRollback(E) ==
    /\ \E a \in DOMAIN acts, o \in {"ok"} \cup E.writeErrors :
          /\ a.pc = "deactivate"
          /\ LET called == [a EXCEPT !.calls = Append(@, SetDefaultCall(a.activity_type_id,
                                                       a.to_deactivate[a.idx][UUID], FALSE))]
             IN IF o = "ok"
                THEN Moves(a, [called EXCEPT !.idx = a.idx + 1,
                                             !.pc = IF a.idx + 1 > Len(a.to_deactivate)
                                                    THEN "activate" ELSE "deactivate"])
                ELSE Moves(a, Ended([called EXCEPT !.calls = @ \o
                                        [i \in 1..(a.idx - 1) |->
                                            SetDefaultCall(a.activity_type_id, a.to_deactivate[i][UUID], TRUE)]],
                                    o))
    /\ ActionFrame

\* lines 253-259: one round of the loop; an error of the call leaves the action
Deactivate(E) ==
    /\ \E a \in DOMAIN acts, o \in {"ok"} \cup E.writeErrors :
          /\ a.pc = "deactivate"
          /\ LET called == [a EXCEPT !.calls = Append(@, SetDefaultCall(a.activity_type_id,
                                                       a.to_deactivate[a.idx][UUID], FALSE))]
             IN IF o = "ok"
                THEN Moves(a, [called EXCEPT !.idx = a.idx + 1,
                                             !.pc = IF a.idx + 1 > Len(a.to_deactivate)
                                                    THEN "activate" ELSE "deactivate"])
                ELSE Moves(a, Ended(called, o))
    /\ ActionFrame

\* lines 260-262
Activate(E) ==
    /\ \E a \in DOMAIN acts, o \in {"ok"} \cup E.writeErrors :
          /\ a.pc = "activate"
          /\ Moves(a, Ended([a EXCEPT !.calls = Append(@, SetDefaultCall(a.activity_type_id, a.uuid, TRUE))],
                            EndOn(o)))
    /\ ActionFrame

\* lines 266-269 and 291-294: the login of the two measurement recorders
MeasurementLogin(E, op, write) ==
    /\ \E a \in DOMAIN acts, o \in E.actionLogins :
          /\ a.pc = "login" /\ a.op = op
          /\ LET logged == [a EXCEPT !.login = LoginRecord(o),
                                     !.calls = Append(@, Call("login"))]
             IN IF LoginGate(o) # ""
                THEN Moves(a, Ended(logged, LoginGate(o)))
                ELSE Moves(a, [logged EXCEPT !.pc = write])
    /\ ActionFrame

\* MeasurementWrite that also puts the recorded weight into the Snapshot
MeasurementWriteUpdatingSnapshot(E, write) ==
    /\ CycleKeep /\ SetupKeep /\ UnloadKeep
    /\ \E a \in DOMAIN acts, o \in {"ok"} \cup E.writeErrors :
          /\ a.pc = write
          /\ Moves(a, Ended([a EXCEPT !.calls = Append(@, Call(write))], EndOn(o)))
          /\ data' = DataOfAlive(IF data[a.co] = NoneVal THEN data
                                 ELSE [data EXCEPT ![a.co] = DictSet(@, "weight", Scalar("recorded"))])

\* lines 271-286 and 296-302: the one write call of a measurement recorder
MeasurementWrite(E, write) ==
    /\ \E a \in DOMAIN acts, o \in {"ok"} \cup E.writeErrors :
          /\ a.pc = write
          /\ Moves(a, Ended([a EXCEPT !.calls = Append(@, Call(write))], EndOn(o)))
    /\ ActionFrame

AddBodyCompositionLogin(E) == MeasurementLogin(E, "add_body_composition", "add_body_composition")
AddBodyCompositionWrite(E) == MeasurementWrite(E, "add_body_composition")
AddBloodPressureLogin(E) == MeasurementLogin(E, "add_blood_pressure", "set_blood_pressure")
SetBloodPressureWrite(E) == MeasurementWrite(E, "set_blood_pressure")

\* ------------------------------------------------------------ async_setup_entry
\* lines 34-39: the host sets the entry up, the first time or again (its retry after
\* ConfigEntryNotReady, a reload, a setup after an unload), one setup of the entry at a
\* time; a new coordinator is constructed, with no data, and its login is awaited.
\* hass.data, and the coordinator in it, are as the setups and unloads before left
\* them, and the coroutines in flight go on.
SetupStart ==
    /\ s_pc \in {"idle", "done", "over"}
    /\ CanStart
    /\ s_pc' = "login" /\ s_co' = Fresh /\ s_login' = NoLogin /\ s_outcome' = ""
    /\ UNCHANGED hass_data
    /\ CycleKeep /\ ActsKeep /\ UnloadKeep
    /\ data' = DataOfAlive([data EXCEPT ![Fresh] = NoneVal])

\* lines 39-42: the login completed; setup returns False when it reports failure, the
\* error of async_login leaves setup as it is; after a successful login
\* async_config_entry_first_refresh starts the first cycle of the new coordinator
SetupLogin(E) ==
    /\ s_pc = "login"
    /\ \E o \in E.setupLogins :
          /\ s_login' = LoginRecord(o)
          /\ IF async_login(o).raised # ""
             THEN s_outcome' = async_login(o).raised /\ s_pc' = "done" /\ CycleKeep
             ELSE IF ~async_login(o).value
             THEN s_outcome' = "False" /\ s_pc' = "done" /\ CycleKeep
             ELSE s_outcome' = s_outcome /\ s_pc' = "first_refresh" /\ CycleMoves(s_co, RefreshBegin)
    /\ UNCHANGED <<s_co, hass_data>>
    /\ ActsKeep /\ UnloadKeep
    /\ DataKeep

\* lines 47-49: async_forward_entry_setups completed; setup returns True, or the error
\* of the call leaves setup with the coordinator registered
SetupForward(E) ==
    /\ s_pc = "forward"
    /\ \E o \in E.forwards : s_outcome' = IF o = "ok" THEN "True" ELSE o
    /\ s_pc' = "done"
    /\ UNCHANGED <<s_co, s_login, hass_data>>
    /\ CycleKeep /\ ActsKeep /\ UnloadKeep
    /\ DataKeep

\* ----------------------------------------------------------- async_unload_entry
\* line 56: hass.data[DOMAIN].pop(entry_id)
Pop(hd, e) ==
    DictSet(hd, INTEGRATION_DOMAIN,
            [k \in (DOMAIN hd[INTEGRATION_DOMAIN]) \ {e} |-> hd[INTEGRATION_DOMAIN][k]])

\* line 54: the host unloads the entry; async_unload_platforms is awaited
UnloadStart ==
    /\ u_pc \in {"idle", "done"}
    /\ CanStart
    /\ u_pc' = "unload_platforms" /\ u_outcome' = ""
    /\ CycleKeep /\ SetupKeep /\ ActsKeep
    /\ DataKeep

\* lines 54-57: async_unload_platforms completed; when it returned True the entry is
\* popped from hass.data[DOMAIN], a KeyError when it is not there
UnloadPlatforms(E) ==
    /\ u_pc = "unload_platforms"
    /\ u_pc' = "done"
    /\ \E o \in E.unloads :
          IF o = "True" /\ Registered
          THEN /\ hass_data' = Pop(hass_data, ENTRY_ID) /\ u_outcome' = "True"
               /\ SetupObservedMoved(Removed)
               /\ cyc' = Moved(CyclesKept, Removed)
               /\ acts' = ActsMoved(Live(acts), Removed)
               /\ data' = DataOfAlive(Moved(data, Removed))
          ELSE /\ hass_data' = hass_data /\ u_outcome' = IF o = "True" THEN "KeyError" ELSE o
               /\ SetupObservedKeep /\ CycleKeep /\ ActsKeep
               /\ DataKeep

\* ------------------------------------------------------------ specification
\* async_setup_entry has not been called: no coordinator, nothing in hass.data
Init ==
    /\ data = [c \in Coordinators |-> NoneVal]
    /\ cyc = [c \in Coordinators |-> RefreshIdle]
    /\ acts = NoActions
    /\ s_pc = "idle" /\ s_co = NoCoordinator /\ s_login = NoLogin /\ s_outcome = ""
    /\ hass_data = EmptyDict
    /\ u_pc = "idle" /\ u_outcome = ""

\* the steps of the refresh cycle, with the answers of E
RefreshStep(E) ==
    \/ GetUserSummary(E)
    \/ GetBodyComposition(E)
    \/ GetActivitiesByDate(E)
    \/ GetEarnedBadges(E)
    \/ GetDeviceAlarms(E)
    \/ GetActivityTypes(E)
    \/ GetSleepData(E)
    \/ GetHrvData(E)
    \/ Relogin(E)
    \/ GetGear(E)
    \/ GearStatsComplete(E)
    \/ GetGearDefaults(E)

\* the steps of the service actions, with the calls and the answers of E
ActionStep(E) ==
    \/ SetActiveGearStart(E)
    \/ AddBodyCompositionStart(E)
    \/ AddBloodPressureStart(E)
    \/ SetActiveGearLogin(E)
    \/ SetGearDefault(E)
    \/ GetGearDefaultsForAction(E)
    \/ Deactivate(E)
    \/ Activate(E)
    \/ AddBodyCompositionLogin(E)
    \/ AddBodyCompositionWrite(E)
    \/ AddBloodPressureLogin(E)
    \/ SetBloodPressureWrite(E)

\* the steps of the setup and of the unload of the entry
EntryStep(E) ==
    \/ SetupStart
    \/ SetupLogin(E)
    \/ SetupForward(E)
    \/ UnloadStart
    \/ UnloadPlatforms(E)

\* every coroutine in flight can take its next step, and a coroutine can be started
\* while fewer than MaxInFlight are in flight
NextWith(E) ==
    \/ EntryStep(E)
    \/ RefreshStart
    \/ RefreshStep(E)
    \/ ActionStep(E)

Next == NextWith(CycleInputs)
Spec == Init /\ [][Next]_vars

SetupNext == NextWith(SetupInputs)
SetupSpec == Init /\ [][SetupNext]_vars

ShapeNext == NextWith(ShapeInputs)
ShapeSpec == Init /\ [][ShapeNext]_vars

GearNext == NextWith(GearInputs)
GearSpec == Init /\ [][GearNext]_vars

GatherNext == NextWith(GatherInputs)
GatherSpec == Init /\ [][GatherNext]_vars

ActionNext == NextWith(ActionInputs)
ActionSpec == Init /\ [][ActionNext]_vars

ExclusiveNext == NextWith(ExclusiveInputs)
ExclusiveSpec == Init /\ [][ExclusiveNext]_vars

SleepNext == NextWith(SleepInputs)
SleepSpec == Init /\ [][SleepNext]_vars

HrvNext == NextWith(HrvInputs)
HrvSpec == Init /\ [][HrvNext]_vars

\* ---------------------------------------------------------------- properties
IsPrefix(a, b) == Len(a) <= Len(b) /\ SubSeq(b, 1, Len(a)) = a
IsSetDefault(c) == c.op = "set_gear_default"
Writes(calls) == SelectSeq(calls, IsSetDefault)
OpsOf(calls) == {calls[i].op : i \in DOMAIN calls}

\* the invocations of the service op on record: in flight, or just ended
Invocations(op) == {a \in DOMAIN acts : a.op = op}

\* the first k Phase-1 calls, in the order of the code
Phase1Prefix(k) == [i \in 1..k |-> Call(Phase1Calls[i])]

\* a Phase-1 fetch of the cycle r raised one of the three client errors
FetchRaisedClientError(r) == r.fetch_fail.err \in ReloginErrors

\* every Phase-1 fetch of the cycle r was issued and none raised
Phase1Succeeded(r) ==
    r.fetch_fail = NoFail /\ IsPrefix(Phase1Prefix(Len(Phase1Calls)), r.calls)

\* C1: in the cycle of any coordinator, when a Phase-1 fetch raises AuthenticationError,
\* TooManyRequestsError or ConnectionError the cycle goes to the re-login and nowhere
\* else, and when the login call then succeeds the cycle returns the empty Snapshot,
\* having issued the Phase-1 calls up to the failing one, the login, and nothing after it.
C1_ReloginSuccessReturnsEmpty ==
    \A c \in Coordinators :
        LET r == cyc[c] IN
        /\ FetchRaisedClientError(r) => r.pc \in {"relogin", "done"}
        /\ (FetchRaisedClientError(r) /\ r.pc = "done") => r.login # NoLogin
        /\ (FetchRaisedClientError(r) /\ r.pc = "done" /\ r.login.outcome = "ok") =>
              /\ r.outcome = "returned"
              /\ r.result = EmptyDict
              /\ \E k \in 1..Len(Phase1Calls) :
                    /\ r.fetch_fail.step = Phase1Calls[k]
                    /\ r.calls = Append(Phase1Prefix(k), Call("login"))

C1_Witness ==
    \E c \in Coordinators :
        /\ cyc[c].pc = "done"
        /\ cyc[c].fetch_fail = [step |-> "get_sleep_data", err |-> "TooManyRequestsError"]
        /\ cyc[c].login.outcome = "ok"
        /\ cyc[c].outcome = "returned" /\ cyc[c].result = EmptyDict
        /\ Len(cyc[c].calls) = 8

\* C2: when a Phase-1 fetch raises one of the three client errors and the login call that
\* follows fails, in whatever way, the cycle ends in UpdateFailed carrying the error of
\* the fetch.
C2_ReloginFailureCarriesFetchError ==
    \A c \in Coordinators :
        LET r == cyc[c] IN
        (FetchRaisedClientError(r) /\ r.pc = "done" /\ r.login.outcome \notin {"", "ok"}) =>
            (r.outcome = "UpdateFailed" /\ r.cause = r.fetch_fail.err)

\* the deactivations the exclusive setting owes for the list d: one per entry of the
\* activity type t that is not the target u, in the order of d
RECURSIVE OwedDeactivations(_, _, _)
OwedDeactivations(d, t, u) ==
    IF d = << >> THEN << >>
    ELSE (IF Head(d).activityTypePk = t /\ Head(d).uuid # u
          THEN <<SetDefaultCall(t, Head(d).uuid, FALSE)>> ELSE << >>)
         \o OwedDeactivations(Tail(d), t, u)

\* the whole sequence of writes the exclusive setting owes in the invocation a
Owed(a) ==
    Append(OwedDeactivations(a.old_default_state, a.activity_type_id, a.uuid),
           SetDefaultCall(a.activity_type_id, a.uuid, TRUE))

\* the type id the label stands for: that of the first entry of types with the label
StandsFor(types, lb, t) ==
    \E i \in DOMAIN types :
        /\ types[i].typeKey = lb /\ types[i].typeId = t
        /\ \A j \in 1..(i - 1) : types[j].typeKey # lb

ExclusiveAfterLogin(a) ==
    a.op = "set_active_gear" /\ a.setting = ONLY_THIS_AS_DEFAULT /\ a.login.outcome = "ok"

\* C3: with the exclusive setting and a successful login, the set_gear_default calls
\* issued are at every moment a prefix of: the deactivation of each entry of the fetched
\* list that has the resolved activity type and is not the target, in the order of the
\* list, then the activation of the target; and they are exactly that sequence when the
\* action returns.  The resolved type is the one the label stands for in the self.data
\* the invocation read, whatever else runs meanwhile.
C3_ExclusiveDefaultWriteSequence ==
    \A a \in DOMAIN acts :
        ExclusiveAfterLogin(a) =>
            /\ IsPrefix(Writes(a.calls), Owed(a))
            /\ (a.pc = "done" /\ a.outcome = "returned") => Writes(a.calls) = Owed(a)
            /\ Writes(a.calls) # << >> =>
                  a.seen.has_types /\ StandsFor(a.seen.types, a.label, a.activity_type_id)

C3_Witness ==
    \E a \in DOMAIN acts :
        /\ ExclusiveAfterLogin(a) /\ a.pc = "done" /\ a.outcome = "returned"
        /\ a.label = "running" /\ a.uuid = "C"
        /\ a.old_default_state = <<[uuid |-> "A", activityTypePk |-> 1],
                                   [uuid |-> "A", activityTypePk |-> 2],
                                   [uuid |-> "C", activityTypePk |-> 1],
                                   [uuid |-> "B", activityTypePk |-> 1]>>
        /\ Writes(a.calls) = <<SetDefaultCall(1, "A", FALSE), SetDefaultCall(1, "B", FALSE),
                               SetDefaultCall(1, "C", TRUE)>>

\* the self.data the invocation a read lists no activity type with its label
LabelUnknown(a) ==
    /\ a.seen.read
    /\ \A i \in DOMAIN a.seen.types : a.seen.types[i].typeKey # a.label

\* C4: when the label of a set_active_gear call matches no entry of the activity_types
\* of the self.data it reads, the action ends by raising at that read, and it has issued
\* no set_gear_default call; an invocation that has issued one read a list with its label.
C4_UnknownLabelRaisesBeforeWrite ==
    \A a \in Invocations("set_active_gear") :
        /\ LabelUnknown(a) =>
              /\ Writes(a.calls) = << >>
              /\ a.pc = "done"
              /\ a.outcome \notin {"", "returned"}
        /\ Writes(a.calls) # << >> => (a.seen.read /\ ~LabelUnknown(a))

C4_Witness ==
    \E a \in Invocations("set_active_gear") :
        /\ a.pc = "done"
        /\ a.login.outcome = "ok"
        /\ a.seen.has_types /\ a.seen.types # << >> /\ a.label = "swimming"
        /\ a.outcome = "RuntimeError"
        /\ a.calls = <<Call("login")>>

\* the cycle r reached the gear phase and its profile lookup raised
LookupRaised(r) == r.gear_fail.step = "lookup"

\* a remote call of the gear phase of the cycle r raised
GearCallRaised(r) == r.gear_fail.step \in GearCalls

\* the value v holds no gear data
NoGearData(v) ==
    /\ HasKey(v, "gear") /\ v["gear"] = EmptyDict
    /\ HasKey(v, "gear_stats") /\ v["gear_stats"] = EmptyDict
    /\ HasKey(v, "gear_defaults") /\ v["gear_defaults"] = EmptyDict

\* the value v holds what Phase 1 of the cycle r fetched
HoldsPhase1(r, v) ==
    /\ \A k \in DOMAIN r.summary : HasKey(v, k)
    /\ HasKey(v, "lastActivities") /\ v["lastActivities"] = ActivitiesResponse
    /\ HasKey(v, "badges") /\ v["badges"] = BadgesResponse
    /\ HasKey(v, "nextAlarm") /\ v["nextAlarm"] = r.alarms
    /\ HasKey(v, "activity_types") /\ v["activity_types"] = r.activity_types

\* C5: when every Phase-1 fetch succeeded and the profile lookup raises, the cycle
\* returns a Snapshot with the Phase-1 fields and empty gear, gear_stats and
\* gear_defaults, and it has issued no gear call.
C5_LookupFailureReturnsSnapshot ==
    \A c \in Coordinators :
        LET r == cyc[c] IN
        (r.pc = "done" /\ Phase1Succeeded(r) /\ LookupRaised(r)) =>
            /\ r.outcome = "returned"
            /\ HoldsPhase1(r, r.result)
            /\ NoGearData(r.result)
            /\ OpsOf(r.calls) \cap GearCalls = {}

\* C6: when a call of the gear phase raised, the Snapshot the cycle returns holds empty
\* gear, gear_stats and gear_defaults, whichever call it was.  Stated of the cycles that
\* return, so that what is refuted is the gear data and not the end of the cycle.
C6_GearFailureLeavesNoGearData ==
    \A c \in Coordinators :
        LET r == cyc[c] IN
        (r.pc = "done" /\ GearCallRaised(r) /\ r.outcome = "returned") => NoGearData(r.result)

\* C7: a failure of the gear phase, of any kind, is followed by no login call and the
\* cycle does not end in UpdateFailed: it ends at the step that failed; a cycle whose
\* Phase-1 fetches all succeeded issues no login call at all.
C7_GearFailureNeverReauthenticates ==
    \A c \in Coordinators :
        LET r == cyc[c] IN
        /\ r.gear_fail # NoFail =>
              /\ r.outcome # "UpdateFailed"
              /\ r.login = NoLogin
              /\ r.pc = "done"
        /\ Phase1Succeeded(r) => "login" \notin OpsOf(r.calls)

C7_Witness ==
    \E c \in Coordinators :
        /\ cyc[c].pc = "done" /\ Phase1Succeeded(cyc[c])
        /\ cyc[c].gear_fail = [step |-> "get_gear_stats", err |-> "AuthenticationError"]
        /\ cyc[c].outcome = "returned"
        /\ "login" \notin OpsOf(cyc[c].calls)

\* what the claim says async_login makes of a login call that ended in outcome o
LoginAsSpecified(l) ==
    \/ l = NoLogin
    \/ l.outcome = "ok" /\ l.raised = "" /\ l.value
    \/ l.outcome \in {"AuthenticationError", "TooManyRequestsError"} /\ l.raised = "" /\ ~l.value
    \/ l.outcome = "ConnectionError" /\ l.raised = "ConfigEntryNotReady"
    \/ l.outcome = "Exception" /\ l.raised = "" /\ ~l.value

\* the outcomes of the login call for which async_login returns False
LoginRefusals == {"AuthenticationError", "TooManyRequestsError", "Exception"}

\* C8: every login call of the setup, of a cycle or of an action is turned by
\* async_login into one result: true on success, false without raising on
\* AuthenticationError, TooManyRequestsError and any other error, ConfigEntryNotReady on
\* ConnectionError; and the callers see it so: the not-ready condition leaves the caller
\* as it is, the false result becomes the caller's own failure.
C8_LoginOutcomeMapping ==
    /\ LoginAsSpecified(s_login)
    /\ \A a \in DOMAIN acts :
          /\ LoginAsSpecified(a.login)
          /\ (a.pc = "done" /\ a.login.outcome = "ConnectionError") => a.outcome = "ConfigEntryNotReady"
          /\ (a.pc = "done" /\ a.login.outcome \in LoginRefusals) => a.outcome = "IntegrationError"
    /\ \A c \in Coordinators :
          LET r == cyc[c] IN
          /\ LoginAsSpecified(r.login)
          /\ (r.pc = "done" /\ r.login.outcome = "ConnectionError") => r.outcome = "ConfigEntryNotReady"
          /\ (r.pc = "done" /\ r.login.outcome \in LoginRefusals) => r.outcome = "UpdateFailed"
    /\ (s_pc = "done" /\ s_login.outcome = "ConnectionError") => s_outcome = "ConfigEntryNotReady"
    /\ (s_pc = "done" /\ s_login.outcome \in LoginRefusals) => s_outcome = "False"

C8_Witness ==
    \E c \in Coordinators :
        /\ cyc[c].pc = "done"
        /\ cyc[c].login = [outcome |-> "ConnectionError", raised |-> "ConfigEntryNotReady", value |-> FALSE]
        /\ cyc[c].outcome = "ConfigEntryNotReady"

\* C8, in an action: an unexpected error of the login call became False, and the action
\* raised IntegrationError
C8_WitnessAction ==
    \E a \in DOMAIN acts :
        /\ a.pc = "done" /\ a.outcome = "IntegrationError"
        /\ a.login = [outcome |-> "Exception", raised |-> "", value |-> FALSE]

\* C8, in a setup: the login call hit TooManyRequestsError, async_login returned False
\* and setup returned False
C8_WitnessSetup ==
    /\ s_pc = "done" /\ s_outcome = "False"
    /\ s_login = [outcome |-> "TooManyRequestsError", raised |-> "", value |-> FALSE]

\* C9: in an action every remote call other than the login comes after the login, which
\* is the first call and succeeded; when the login did not succeed the login is the only
\* call, and when it did add_body_composition and add_blood_pressure issue their one
\* write call and nothing else.
C9_WritesFollowSuccessfulLogin ==
    \A a \in DOMAIN acts :
        /\ \A i \in DOMAIN a.calls :
              a.calls[i].op # "login" =>
                  i > 1 /\ a.calls[1].op = "login" /\ a.login.outcome = "ok"
        /\ \A i \in DOMAIN a.calls : a.calls[i].op = "login" => i = 1
        /\ (a.pc = "done" /\ a.login.outcome # "ok") => a.calls = <<Call("login")>>
        /\ (a.pc = "done" /\ a.login.outcome = "ok" /\ a.op = "add_body_composition")
              => a.calls = <<Call("login"), Call("add_body_composition")>>
        /\ (a.pc = "done" /\ a.login.outcome = "ok" /\ a.op = "add_blood_pressure")
              => a.calls = <<Call("login"), Call("set_blood_pressure")>>

C9_Witness ==
    \E a \in Invocations("add_blood_pressure") :
        /\ a.pc = "done"
        /\ a.login.outcome = "ok"
        /\ a.calls = <<Call("login"), Call("set_blood_pressure")>>

\* C10: when the login call of an action fails, with whatever error, the action ends by
\* raising an integration-level error: IntegrationError, or the ConfigEntryNotReady that
\* async_login raises on ConnectionError.
C10_LoginFailureRaisesIntegrationError ==
    \A a \in DOMAIN acts :
        a.login.outcome \notin {"", "ok"} =>
            a.pc = "done" /\ a.outcome \in IntegrationErrorClasses

C10_Witness ==
    \E a \in Invocations("set_active_gear") :
        /\ a.pc = "done"
        /\ a.login.outcome = "ConnectionError"
        /\ a.outcome = "ConfigEntryNotReady"
        /\ a.calls = <<Call("login")>>

\* C11: a refresh cycle ends in one of two ways, whatever the remote calls did and
\* whatever the shape of their answers: it returns a Snapshot (possibly empty), or it
\* raises UpdateFailed.
C11_CycleReturnsOrUpdateFailed ==
    \A c \in Coordinators :
        cyc[c].pc = "done" => cyc[c].outcome \in {"returned", "UpdateFailed"}

\* the keys the return statement of lines 207-218 writes itself
FixedKeyNames ==
    {"nextAlarm", "gear", "gear_stats", "activity_types", "gear_defaults",
     "sleepScore", "sleepTimeSeconds", "hrvStatus"}

\* C12: when every Phase-1 fetch succeeded, the Snapshot the cycle returns has exactly
\* the keys of the summary (lastActivities and badges among them), of the totalAverage
\* mapping of the body composition and the eight fixed keys; at a key of the totals it
\* holds the totals' value and not the summary's, and at a fixed key it holds what the
\* return statement wrote and neither the summary's nor the totals' value.
C12_SnapshotKeysLaterWins ==
    \A c \in Coordinators :
        LET r == cyc[c] IN
        (r.pc = "done" /\ Phase1Succeeded(r) /\ r.outcome = "returned") =>
            LET total == r.body["totalAverage"] IN
            /\ DOMAIN r.result = (DOMAIN r.summary) \cup (DOMAIN total) \cup FixedKeyNames
            /\ {"lastActivities", "badges"} \subseteq DOMAIN r.summary
            /\ \A k \in (DOMAIN r.summary) \ ((DOMAIN total) \cup FixedKeyNames) :
                  r.result[k] = r.summary[k]
            /\ \A k \in (DOMAIN total) \ FixedKeyNames : r.result[k] = total[k]
            /\ r.result["nextAlarm"] = r.alarms
            /\ r.result["gear"] = r.gear
            /\ r.result["gear_stats"] = r.gear_stats
            /\ r.result["activity_types"] = r.activity_types
            /\ r.result["gear_defaults"] = r.gear_defaults
            /\ r.result["sleepScore"] \in {NoneVal, Scalar("82")}
            /\ r.result["sleepTimeSeconds"] \in {NoneVal, Scalar("28800")}
            /\ HasKey(r.result["hrvStatus"], "status")

C12_Witness ==
    \E c \in Coordinators :
        LET r == cyc[c] IN
        /\ r.pc = "done" /\ Phase1Succeeded(r) /\ r.outcome = "returned"
        /\ r.summary["weight"] = Scalar("summary_weight")
        /\ r.result["weight"] = Scalar("body_weight")
        /\ r.summary["nextAlarm"] = Scalar("summary_alarm")
        /\ r.result["nextAlarm"] = AlarmsResponse
        /\ r.body["totalAverage"]["sleepScore"] = Scalar("body_score")
        /\ r.result["sleepScore"] = Scalar("82")
        /\ r.result["lastActivities"] = ActivitiesResponse
        /\ r.result["bmi"] = Scalar("body_bmi")
        /\ r.result["totalSteps"] = Scalar("steps")

\* the self.data the invocation a read lists an activity type with its label
LabelKnown(a) == a.seen.read /\ ~LabelUnknown(a)

\* C16: set_active_gear with a setting other than the exclusive one, a successful login
\* and a label that the self.data it reads lists issues, after the login, exactly one
\* call: the set_gear_default of the target for the type the label stands for, with the
\* flag true if and only if the setting is "default"; it issues no get_gear_defaults.
C16_DirectSettingSingleWrite ==
    \A a \in Invocations("set_active_gear") :
        (a.setting # ONLY_THIS_AS_DEFAULT /\ a.login.outcome = "ok" /\ LabelKnown(a)) =>
            /\ a.pc \in {"set_gear_default", "done"}
            /\ a.pc = "set_gear_default" => a.calls = <<Call("login")>>
            /\ a.pc = "done" =>
                  /\ Len(a.calls) = 2
                  /\ a.calls[2].op = "set_gear_default"
                  /\ a.calls[2].uuid = a.uuid
                  /\ StandsFor(a.seen.types, a.label, a.calls[2].type)
                  /\ a.calls[2].flag = (a.setting = "default")

C16_Witness ==
    \E a \in Invocations("set_active_gear") :
        /\ a.pc = "done" /\ a.outcome = "returned"
        /\ a.setting = "not-default" /\ a.label = "cycling"
        /\ a.calls = <<Call("login"), SetDefaultCall(2, "C", FALSE)>>

\* the errors a remote call raises
CallErrors == Outcomes \ {"ok"}

\* a set_gear_default call of the exclusive sequence raised: the action ended with an error
\* of the Remote Client after it had issued a write
WriteRaised(a) ==
    /\ ExclusiveAfterLogin(a) /\ a.pc = "done"
    /\ a.outcome \in CallErrors /\ Writes(a.calls) # << >>

\* C17: when the k-th set_gear_default call of the exclusive sequence raises, the action
\* ends with that error as the Remote Client raised it, the failing call is the last call
\* it issued, and the k writes are the first k of the owed sequence: the k-1 that
\* succeeded are deactivations, none of them is undone, and the target is not activated
\* unless the failing call is the activation itself.
C17_FailedWriteEndsSequence ==
    \A a \in DOMAIN acts :
        WriteRaised(a) =>
            LET owed == Owed(a)
                w == Writes(a.calls)
                k == Len(w)
            IN /\ k <= Len(owed)
               /\ w = SubSeq(owed, 1, k)
               /\ a.calls[Len(a.calls)] = w[k]
               /\ \A i \in 1..(k - 1) : ~w[i].flag /\ w[i].uuid # a.uuid
               /\ k < Len(owed) => \A i \in 1..k : ~w[i].flag
               /\ a.calls = <<Call("login"), Call("get_gear_defaults")>> \o w

C17_Witness ==
    \E a \in DOMAIN acts :
        /\ WriteRaised(a) /\ a.outcome = "TooManyRequestsError"
        /\ a.old_default_state = <<[uuid |-> "A", activityTypePk |-> 1],
                                   [uuid |-> "A", activityTypePk |-> 2],
                                   [uuid |-> "C", activityTypePk |-> 1],
                                   [uuid |-> "B", activityTypePk |-> 1]>>
        /\ a.label = "running"
        /\ Writes(a.calls) = <<SetDefaultCall(1, "A", FALSE), SetDefaultCall(1, "B", FALSE)>>

\* every get_gear_stats call the cycle r launched for the gear list completed without
\* raising
AllStatsSucceeded(r) == r.gear # << >> /\ Len(r.stats_done) = Len(r.gear)

\* C18: when every get_gear_stats call succeeded, gear_stats is as long as gear and its
\* i-th element is the stats of the i-th gear item, in whatever order the calls
\* completed; the calls were launched in the order of the list, and the Snapshot the
\* cycle returns holds the two lists so.
C18_GearStatsPositional ==
    \A c \in Coordinators :
        LET r == cyc[c] IN
        AllStatsSucceeded(r) =>
            /\ Len(r.gear_stats) = Len(r.gear)
            /\ \A i \in 1..Len(r.gear) : r.gear_stats[i] = GearStatsResponse(r.gear[i].uuid)
            /\ Range(r.stats_done) = 1..Len(r.gear)
            /\ \E k \in 1..Len(r.calls) :
                  /\ r.calls[k] = Call("get_gear")
                  /\ \A i \in 1..Len(r.gear) : r.calls[k + i] = StatsCall(r.gear[i].uuid)
            /\ (r.pc = "done" /\ r.outcome = "returned") =>
                  /\ r.result["gear"] = r.gear
                  /\ \A i \in 1..Len(r.gear) :
                        r.result["gear_stats"][i] = GearStatsResponse(r.gear[i].uuid)

C18_Witness ==
    \E c \in Coordinators :
        LET r == cyc[c] IN
        /\ AllStatsSucceeded(r) /\ r.pc = "done" /\ r.outcome = "returned"
        /\ r.stats_done = <<2, 1>>
        /\ r.gear = <<GearItem("A"), GearItem("B")>>
        /\ r.result["gear_stats"] = <<GearStatsResponse("A"), GearStatsResponse("B")>>

\* C20: a cycle returns the empty Snapshot only on the re-login path; a set_active_gear
\* that reads the empty Snapshot, with any setting and label, has issued its login and
\* nothing else and ends there in the KeyError of self.data["activity_types"]; a
\* set_active_gear returns only when the self.data it read is a Snapshot with activity
\* types, which a cycle that ran to line 207 stored.
C20_EmptySnapshotBlocksGearAction ==
    /\ \A c \in Coordinators :
          LET r == cyc[c] IN
          /\ (r.pc = "done" /\ r.outcome = "returned") =>
                (r.result = EmptyDict <=> (FetchRaisedClientError(r) /\ r.login.outcome = "ok"))
          /\ data[c] \notin {NoneVal, EmptyDict} => FixedKeyNames \subseteq DOMAIN data[c]
    /\ \A a \in Invocations("set_active_gear") :
          /\ (a.seen.read /\ a.seen.empty) =>
                /\ a.pc = "done"
                /\ a.login.outcome = "ok"
                /\ a.calls = <<Call("login")>>
                /\ a.outcome = "KeyError"
          /\ (a.pc = "done" /\ a.outcome = "returned") =>
                /\ a.seen.read /\ ~a.seen.none /\ ~a.seen.empty
                /\ a.seen.types # << >>

C20_Witness ==
    \E a \in Invocations("set_active_gear") :
        /\ data[a.co] = EmptyDict
        /\ a.pc = "done" /\ a.seen.empty
        /\ a.setting = "default" /\ a.label = "running"
        /\ a.login.outcome = "ok"
        /\ a.outcome = "KeyError"
        /\ a.calls = <<Call("login")>>

\* the cycle r is over, every Phase-1 fetch succeeded and line 209 found its key
CycleDerived(r) == r.pc = "done" /\ Phase1Succeeded(r) /\ HasKey(r.body, "totalAverage")

\* C13: in a cycle whose Phase-1 fetches all succeeded, whatever keys the sleep answer
\* lacks, the extraction raises nothing: the cycle returns.  Without dailySleepDTO both
\* sleepScore and sleepTimeSeconds are None; a missing score sub-key leaves sleepScore
\* None and sleepTimeSeconds the value of the answer, and the other way round.
C13_SleepExtractionTolerant ==
    \A c \in Coordinators :
        LET r == cyc[c] IN
        CycleDerived(r) =>
            /\ r.outcome = "returned"
            /\ ~HasKey(r.sleep_data, "dailySleepDTO") =>
                  /\ r.result["sleepScore"] = NoneVal
                  /\ r.result["sleepTimeSeconds"] = NoneVal
            /\ HasKey(r.sleep_data, "dailySleepDTO") =>
                  LET dto == r.sleep_data["dailySleepDTO"] IN
                  /\ r.result["sleepTimeSeconds"] =
                        IF HasKey(dto, "sleepTimeSeconds") THEN dto["sleepTimeSeconds"] ELSE NoneVal
                  /\ r.result["sleepScore"] =
                        IF HasKey(dto, "sleepScores")
                        THEN dto["sleepScores"]["overall"]["value"] ELSE NoneVal

C13_WitnessMissingScore ==
    \E c \in Coordinators :
        LET r == cyc[c] IN
        /\ CycleDerived(r) /\ r.outcome = "returned"
        /\ r.sleep_data = SleepWithoutScores
        /\ r.result["sleepScore"] = NoneVal
        /\ r.result["sleepTimeSeconds"] = Scalar("28800")

\* C13, the case of the claim: the answer has no dailySleepDTO at all (the case above
\* is the missing score sub-key)
C13_Witness ==
    \E c \in Coordinators :
        LET r == cyc[c] IN
        /\ CycleDerived(r) /\ r.outcome = "returned"
        /\ r.sleep_data = SleepOtherKeys
        /\ r.result["sleepScore"] = NoneVal
        /\ r.result["sleepTimeSeconds"] = NoneVal

\* the HRV answer v contains a populated hrvSummary
HasPopulatedSummary(v) ==
    /\ v # NoneVal
    /\ HasKey(v, "hrvSummary")
    /\ v["hrvSummary"] # NoneVal
    /\ DOMAIN v["hrvSummary"] # {}

\* C14: in a cycle that returned a Snapshot, hrvStatus is the hrvSummary of the HRV
\* answer when the answer contains a populated one, and {"status": "UNKNOWN"} in every
\* other case: the answer is empty, has no hrvSummary, or has a null or empty one.
C14_HrvStatusUnknownUnlessPopulated ==
    \A c \in Coordinators :
        LET r == cyc[c] IN
        (CycleDerived(r) /\ r.outcome = "returned") =>
            r.result["hrvStatus"] =
                IF HasPopulatedSummary(r.hrv_data)
                THEN r.hrv_data["hrvSummary"]
                ELSE [status |-> Scalar("UNKNOWN")]

WhereAfterStep ==
    IF s_pc = "first_refresh" /\ s_pc' = "forward" THEN Installed
    ELSE IF Registered /\ ~Registered' THEN Removed
    ELSE Stay

\* a step of an action handler: an invocation starts, or goes from one await to the
\* next, or ends
ActionHandlerStep == Live(acts') # ActsMoved(Live(acts), WhereAfterStep)

\* the records of the invocations that took a step
Stepped ==
    LET before == ActsMoved(acts, WhereAfterStep)
    IN {b \in DOMAIN acts' : b \notin DOMAIN before \/ acts'[b] > before[b]}

\* the step completes self._api.login, the one call of the Remote Client that writes the
\* login state of the session
IssuesLogin ==
    \E b \in Stepped : b.calls # << >> /\ b.calls[Len(b.calls)].op = "login"

\* C19, as stated: whatever the interleaving with the refresh cycles, a step of an action
\* handler leaves the self.data of every coordinator as it is and does not write the
\* login state of a session.
C19_ActionsLeaveSnapshotAndSession ==
    [][ActionHandlerStep =>
          /\ \A c \in Alive' : data'[c] = data[c]
          /\ ~IssuesLogin]_vars

\* C19, amended: whatever the interleaving, a step of an action handler leaves the
\* self.data of every coordinator as it is, and the self.data of a coordinator changes
\* only in the step in which a cycle of that coordinator returns, to what the cycle
\* returned; the login state of the session is written by the action handlers too, each
\* of them logging in as its first call and only then.
C19_ActionsLeaveSnapshot ==
    [][/\ ActionHandlerStep =>
             /\ WhereAfterStep = Stay
             /\ \A c \in Alive' : data'[c] = data[c]
       /\ \A c \in Alive :
             LET d == WhereAfterStep[c] IN
             (d \in Alive' /\ data'[d] # data[c]) =>
                 /\ CycleInFlight(c)
                 /\ cyc'[d].pc = "done" /\ cyc'[d].outcome = "returned"
                 /\ data'[d] = cyc'[d].result
                 /\ ~ActionHandlerStep
       /\ \A b \in Stepped :
             /\ b.pc # "login" => (b.calls # << >> /\ b.calls[1].op = "login")
             /\ \A i \in DOMAIN b.calls : b.calls[i].op = "login" => i = 1]_vars

\* an action ran to its end while a refresh cycle of its coordinator was in flight: it
\* read the empty Snapshot, issued its login, and self.data is still the empty Snapshot
C19_Witness ==
    \E a \in Invocations("set_active_gear") :
        /\ cyc[a.co].pc = "get_gear_stats"
        /\ data[a.co] = EmptyDict
        /\ a.pc = "done"
        /\ a.login.outcome = "ok"
        /\ a.outcome = "KeyError"
        /\ a.calls = <<Call("login")>>

====
